---- MODULE Spec2Model ----
(***************************************************************************)
(* A model of package queue (queue.go): the InMemoryQueueStorage linked    *)
(* list and the Queue.Run dispatcher / worker pool.                        *)
(*                                                                         *)
(* Pointers are indices into storage.heap (0 is nil); a node is never      *)
(* freed, as a node stays reachable in Go while q.last still refers to it. *)
(***************************************************************************)
EXTENDS Integers, Sequences, FiniteSets, TLC

VARIABLES
    storage,    \* the InMemoryQueueStorage: MaxSize, size, first, last, heap
    panicked,   \* a nil pointer was dereferenced (Go run-time panic)
    addLog,     \* history: every AddRequest call, in call order
    getLog,     \* history: every GetRequest call with what it returned
    lock,       \* q.lock: the caller holding it, or Unlocked
    pc,         \* concurrent callers of the storage: the line each is at
    loc,        \* concurrent callers of the storage: the locals r and i
    nextId,     \* concurrent callers of the storage: payloads made so far
    Threads,            \* q.Threads
    activeThreadCount,  \* q.activeThreadCount
    requestsOut,        \* q.requestsOut, an unbuffered channel: open or closed
    rpc,        \* Run: not called yet, in wg.Wait(), or returned
    wpc,        \* the line each consumer goroutine is at
    wr,         \* the request r each consumer goroutine holds
    dpc,        \* the line the dispatching goroutine is at
    dr,         \* the request r the dispatching goroutine is sending
    handed,     \* history: times each request was received from requestsOut
    done        \* history: times r.Do() returned for each request

storeVars == <<storage, panicked, addLog, getLog>>
concVars == <<lock, pc, loc, nextId>>
runVars == <<Threads, activeThreadCount, requestsOut, rpc, wpc, wr, dpc, dr,
             handed, done>>
vars == <<storage, panicked, addLog, getLog, lock, pc, loc, nextId,
          Threads, activeThreadCount, requestsOut, rpc, wpc, wr, dpc, dr,
          handed, done>>

\* ------------------------------------------------------------------ bounds

MaxCap == 2     \* MaxSize ranges over 0..MaxCap (0: unbounded)
MaxAdds == 6    \* AddRequest calls in one behaviour
MaxGets == 3    \* GetRequest calls in one behaviour
MaxConcAdds == 4    \* AddRequest calls of the concurrent producers together
MaxConcGets == 3    \* GetRequest calls of the concurrent consumer
MaxThreads == 2     \* q.Threads ranges up to MaxThreads
MaxBacklog == 3     \* requests enqueued before Run is called
MaxFollowUps == 2   \* requests enqueued by r.Do() during Run
MaxSeed == 1        \* requests enqueued before a Run whose executor enqueues
MaxNils == 1        \* nil payloads stored by s.AddRequest(nil)
MaxReported == 2    \* sizes 0..MaxReported reported by a Storage of the caller

\* ------------------------------------------------------------- data model

NilPtr == 0

\* A serialized request: []byte.  id tells two payloads apart, by is the
\* caller that enqueued it, ok tells whether UnmarshalRequest decodes it.
Bytes(id, by, ok) == [id |-> id, by |-> by, ok |-> ok]

\* The nil slice.
NilBytes == Bytes(0, "nil", FALSE)

\* The nil error.
NilErr == "nil"

inMemoryQueueItem(r) == [Request |-> r, Next |-> NilPtr]

\* &InMemoryQueueStorage{MaxSize: m} after Init().
InMemoryQueueStorage(m) ==
    [MaxSize |-> m, size |-> 0, first |-> NilPtr, last |-> NilPtr, heap |-> <<>>]

\* ------------------------------------------------- InMemoryQueueStorage

\* AddRequest(r), the body run under q.lock: the storage after the call, the
\* error returned, and whether the call dereferenced nil.
AddRequestLIFO(q, r) ==
    IF q.MaxSize > 0 /\ q.size >= q.MaxSize
    THEN [q |-> q, err |-> NilErr, panic |-> FALSE]
    ELSE LET i == Len(q.heap) + 1
         IN  [q |-> [q EXCEPT !.heap = Append(q.heap, [Request |-> r, Next |-> q.first]),
                              !.first = i,
                              !.last = IF q.first = NilPtr THEN i ELSE q.last,
                              !.size = q.size + 1],
              err |-> NilErr, panic |-> FALSE]

AddRequestOffByOne(q, r) ==
    IF q.MaxSize > 0 /\ q.size > q.MaxSize
    THEN [q |-> q, err |-> NilErr, panic |-> FALSE]
    ELSE LET i == Len(q.heap) + 1
             h == Append(q.heap, inMemoryQueueItem(r))
         IN  IF q.first = NilPtr
             THEN [q |-> [q EXCEPT !.heap = h, !.first = i, !.last = i,
                                   !.size = q.size + 1],
                   err |-> NilErr, panic |-> FALSE]
             ELSE [q |-> [q EXCEPT !.heap = [h EXCEPT ![q.last].Next = i],
                                   !.last = i, !.size = q.size + 1],
                   err |-> NilErr, panic |-> FALSE]

AddRequestTestsLast(q, r) ==
    IF q.MaxSize > 0 /\ q.size >= q.MaxSize
    THEN [q |-> q, err |-> NilErr, panic |-> FALSE]
    ELSE LET i == Len(q.heap) + 1
             h == Append(q.heap, inMemoryQueueItem(r))
         IN  IF q.last = NilPtr
             THEN [q |-> [q EXCEPT !.heap = h, !.first = i, !.last = i,
                                   !.size = q.size + 1],
                   err |-> NilErr, panic |-> FALSE]
             ELSE [q |-> [q EXCEPT !.heap = [h EXCEPT ![q.last].Next = i],
                                   !.last = i, !.size = q.size + 1],
                   err |-> NilErr, panic |-> FALSE]

AddRequestBody(q, r) ==
    IF q.MaxSize > 0 /\ q.size >= q.MaxSize
    THEN [q |-> q, err |-> NilErr, panic |-> FALSE]
    ELSE LET i == Len(q.heap) + 1
             h == Append(q.heap, inMemoryQueueItem(r))
         IN  IF q.first = NilPtr
             THEN [q |-> [q EXCEPT !.heap = h, !.first = i, !.last = i,
                                   !.size = q.size + 1],
                   err |-> NilErr, panic |-> FALSE]
             ELSE IF q.last = NilPtr
             THEN [q |-> q, err |-> NilErr, panic |-> TRUE]
             ELSE [q |-> [q EXCEPT !.heap = [h EXCEPT ![q.last].Next = i],
                                   !.last = i, !.size = q.size + 1],
                   err |-> NilErr, panic |-> FALSE]

\* GetRequest(), the body run under q.lock: the storage after the call, the
\* payload and error returned, and whether the call dereferenced nil.
GetRequestKeepsSize(q) ==
    IF q.size = 0 \/ q.first = NilPtr
    THEN [q |-> q, rb |-> NilBytes, err |-> NilErr, panic |-> FALSE]
    ELSE [q |-> [q EXCEPT !.first = q.heap[q.first].Next],
          rb |-> q.heap[q.first].Request, err |-> NilErr, panic |-> FALSE]

GetRequestEmptyDecrements(q) ==
    IF q.size = 0
    THEN [q |-> [q EXCEPT !.size = q.size - 1],
          rb |-> NilBytes, err |-> NilErr, panic |-> FALSE]
    ELSE IF q.first = NilPtr
    THEN [q |-> q, rb |-> NilBytes, err |-> NilErr, panic |-> TRUE]
    ELSE [q |-> [q EXCEPT !.first = q.heap[q.first].Next, !.size = q.size - 1],
          rb |-> q.heap[q.first].Request, err |-> NilErr, panic |-> FALSE]

GetRequestKeepsFirst(q) ==
    IF q.size = 0
    THEN [q |-> q, rb |-> NilBytes, err |-> NilErr, panic |-> FALSE]
    ELSE IF q.first = NilPtr
    THEN [q |-> q, rb |-> NilBytes, err |-> NilErr, panic |-> TRUE]
    ELSE [q |-> [q EXCEPT !.size = q.size - 1],
          rb |-> q.heap[q.first].Request, err |-> NilErr, panic |-> FALSE]

GetRequestBody(q) ==
    IF q.size = 0
    THEN [q |-> q, rb |-> NilBytes, err |-> NilErr, panic |-> FALSE]
    ELSE IF q.first = NilPtr
    THEN [q |-> q, rb |-> NilBytes, err |-> NilErr, panic |-> TRUE]
    ELSE [q |-> [q EXCEPT !.first = q.heap[q.first].Next, !.size = q.size - 1],
          rb |-> q.heap[q.first].Request, err |-> NilErr, panic |-> FALSE]

\* QueueSize()
QueueSize(q) == [n |-> q.size, err |-> NilErr]

\* The payloads retrievable from the head, in order: the chain first, first.Next, ...
RECURSIVE Chain(_, _, _)
Chain(q, p, fuel) ==
    IF p = NilPtr \/ fuel = 0 THEN <<>>
    ELSE <<q.heap[p].Request>> \o Chain(q, q.heap[p].Next, fuel - 1)

Items(q) == Chain(q, q.first, Len(q.heap))

\* ------------------------------------ sequential use of the storage alone

Producers == {"p1", "p2"}
Consumer == "c"
Procs == Producers \cup {Consumer}
Unlocked == "unlocked"
NoLocals == [r |-> NilBytes, i |-> NilPtr]

InitCallers ==
    /\ lock = Unlocked
    /\ pc = [p \in Procs |-> "idle"]
    /\ loc = [p \in Procs |-> NoLocals]
    /\ nextId = 1

Workers == 1..MaxThreads
MaxItems == MaxBacklog + MaxFollowUps
NoRequest == 0

\* New(threads, s), lines 62-66: the queue before Run is called.
InitQueue(threadCounts) ==
    /\ Threads \in threadCounts
    /\ activeThreadCount = 0
    /\ requestsOut = "open"
    /\ rpc = "new"
    /\ wpc = [w \in Workers |-> "none"]
    /\ wr = [w \in Workers |-> NoRequest]
    /\ dpc = "none"
    /\ dr = NoRequest
    /\ handed = [i \in 1..MaxItems |-> 0]
    /\ done = [i \in 1..MaxItems |-> 0]

InitStorage ==
    /\ storage \in {InMemoryQueueStorage(m) : m \in 0..MaxCap}
    /\ panicked = FALSE
    /\ addLog = <<>>
    /\ getLog = <<>>
    /\ InitCallers
    /\ InitQueue({0})

\* One call q.AddRequest(r) with a fresh payload.
AddRequest ==
    /\ ~panicked
    /\ Len(addLog) < MaxAdds
    /\ LET r == Bytes(Len(addLog) + 1, "main", TRUE)
           res == AddRequestBody(storage, r)
       IN  /\ storage' = res.q
           /\ panicked' = res.panic
           /\ addLog' = Append(addLog, [r |-> r, err |-> res.err,
                                        full |-> storage.MaxSize > 0
                                                 /\ storage.size >= storage.MaxSize,
                                        afterGet |-> getLog # <<>>])
    /\ UNCHANGED <<getLog, concVars, runVars>>

\* One call q.GetRequest().
GetRequest ==
    /\ ~panicked
    /\ Len(getLog) < MaxGets
    /\ LET res == GetRequestBody(storage)
       IN  /\ storage' = res.q
           /\ panicked' = res.panic
           /\ getLog' = Append(getLog, [rb |-> res.rb, err |-> res.err])
    /\ UNCHANGED <<addLog, concVars, runVars>>

NextStorage == AddRequest \/ GetRequest

SpecStorage == InitStorage /\ [][NextStorage]_vars

\* --------------------------------------------- properties of the storage

Accepted == {j \in 1..Len(addLog) : ~addLog[j].full}
Returned == {k \in 1..Len(getLog) : getLog[k].rb # NilBytes}
LastAdd == addLog[Len(addLog)]
LastGet == getLog[Len(getLog)]
AddStep == Len(addLog') = Len(addLog) + 1
GetStep == Len(getLog') = Len(getLog) + 1

\* C5: N accepted AddRequest calls followed by GetRequest calls, with no
\* AddRequest after the first GetRequest and the capacity never reached: the
\* k-th GetRequest returns the payload of the k-th AddRequest, for k in 1..N.
FIFOLaw ==
    (\A j \in 1..Len(addLog) : ~addLog[j].full /\ ~addLog[j].afterGet)
        => \A k \in 1..Len(getLog) :
               k <= Len(addLog) => /\ getLog[k].rb = addLog[k].r
                                   /\ getLog[k].err = NilErr

FIFOWitness ==
    /\ Len(addLog) = 3
    /\ \A j \in 1..3 : ~addLog[j].full /\ ~addLog[j].afterGet
    /\ Len(getLog) = 3
    /\ getLog[3].rb = addLog[3].r

\* C6: QueueSize() is the number of accepted AddRequest calls minus the number
\* of GetRequest calls that returned an item, and is the number of items
\* retrievable from the head.
SizeInvariant ==
    /\ QueueSize(storage).err = NilErr
    /\ QueueSize(storage).n = Cardinality(Accepted) - Cardinality(Returned)
    /\ QueueSize(storage).n = Len(Items(storage))

SizeWitness ==
    /\ \E j \in 1..Len(addLog) : addLog[j].full
    /\ \E k \in 1..Len(getLog) : getLog[k].rb = NilBytes
    /\ Cardinality(Returned) >= 2
    /\ QueueSize(storage).n >= 1

\* C7: with MaxSize = k > 0, an AddRequest issued when size >= k returns nil
\* and changes nothing in the storage; with no GetRequest so far and at least
\* k AddRequest calls, QueueSize() is k and the items kept are the first k
\* enqueued, in order.
CapacityLaw ==
    /\ [][(AddStep /\ storage.MaxSize > 0 /\ storage.size >= storage.MaxSize)
            => /\ storage' = storage
               /\ LastAdd'.err = NilErr
               /\ ~panicked']_vars
    /\ []((storage.MaxSize > 0 /\ getLog = <<>> /\ Len(addLog) >= storage.MaxSize)
            => /\ QueueSize(storage).n = storage.MaxSize
               /\ Items(storage) = [k \in 1..storage.MaxSize |-> addLog[k].r])

CapacityWitness ==
    /\ storage.MaxSize = 1
    /\ getLog = <<>>
    /\ Len(addLog) = storage.MaxSize + 5
    /\ LastAdd.full

CoreListInvariant ==
    /\ [](storage.size = 0 <=> storage.first = NilPtr)
    /\ [][(AddStep /\ storage.size = 0)
            => /\ storage'.first = Len(storage'.heap)
               /\ storage'.last = storage'.first
               /\ storage'.heap[storage'.first] = inMemoryQueueItem(LastAdd'.r)
               /\ GetRequestBody(storage').rb = LastAdd'.r
               /\ ~GetRequestBody(storage').panic]_vars

\* An AddRequest on a list that was filled and drained: last was stale.
CoreListWitness ==
    /\ Len(addLog) >= 2
    /\ LastAdd.afterGet
    /\ Cardinality(Returned) = Len(addLog) - 1
    /\ storage.size = 1
    /\ storage.first = Len(storage.heap)
    /\ storage.last = storage.first

\* ------------------ concurrent callers of the storage, statement by statement

\* q.lock.Lock() returns only when no other caller holds the lock.
LockNeverBlocks(p) == TRUE

LockFree(p) == lock = Unlocked

\* defer q.lock.Unlock() and return.
Unlock(p) ==
    /\ lock' = Unlocked
    /\ pc' = [pc EXCEPT ![p] = "idle"]
    /\ loc' = [loc EXCEPT ![p] = NoLocals]

\* AddRequest(r), line 164: the producer calls with a fresh payload and locks.
AddLock(p) ==
    /\ ~panicked
    /\ pc[p] = "idle"
    /\ nextId <= MaxConcAdds
    /\ LockFree(p)
    /\ lock' = p
    /\ loc' = [loc EXCEPT ![p] = [r |-> Bytes(nextId, p, TRUE), i |-> NilPtr]]
    /\ nextId' = nextId + 1
    /\ pc' = [pc EXCEPT ![p] = "a167"]
    /\ UNCHANGED <<storeVars, runVars>>

\* lines 167-169: the capacity test; a full storage returns nil.
AddCheck(p) ==
    /\ ~panicked
    /\ pc[p] = "a167"
    /\ LET full == storage.MaxSize > 0 /\ storage.size >= storage.MaxSize
       IN  /\ addLog' = Append(addLog, [r |-> loc[p].r, err |-> NilErr, full |-> full,
                                        afterGet |-> getLog # <<>>])
           /\ IF full
              THEN Unlock(p)
              ELSE /\ pc' = [pc EXCEPT ![p] = "a170"]
                   /\ UNCHANGED <<lock, loc>>
    /\ UNCHANGED <<storage, panicked, getLog, nextId, runVars>>

\* line 170: i := &inMemoryQueueItem{Request: r}
AddNew(p) ==
    /\ ~panicked
    /\ pc[p] = "a170"
    /\ storage' = [storage EXCEPT !.heap = Append(@, inMemoryQueueItem(loc[p].r))]
    /\ loc' = [loc EXCEPT ![p].i = Len(storage.heap) + 1]
    /\ pc' = [pc EXCEPT ![p] = "a171"]
    /\ UNCHANGED <<panicked, addLog, getLog, lock, nextId, runVars>>

\* line 171: if q.first == nil
AddTest(p) ==
    /\ ~panicked
    /\ pc[p] = "a171"
    /\ pc' = [pc EXCEPT ![p] = IF storage.first = NilPtr THEN "a172" ELSE "a174"]
    /\ UNCHANGED <<storeVars, lock, loc, nextId, runVars>>

\* line 172: q.first = i
AddFirst(p) ==
    /\ ~panicked
    /\ pc[p] = "a172"
    /\ storage' = [storage EXCEPT !.first = loc[p].i]
    /\ pc' = [pc EXCEPT ![p] = "a176"]
    /\ UNCHANGED <<panicked, addLog, getLog, lock, loc, nextId, runVars>>

\* line 174: q.last.Next = i
AddNext(p) ==
    /\ ~panicked
    /\ pc[p] = "a174"
    /\ IF storage.last = NilPtr
       THEN panicked' = TRUE /\ UNCHANGED storage
       ELSE /\ storage' = [storage EXCEPT !.heap[storage.last].Next = loc[p].i]
            /\ UNCHANGED panicked
    /\ pc' = [pc EXCEPT ![p] = "a176"]
    /\ UNCHANGED <<addLog, getLog, lock, loc, nextId, runVars>>

\* line 176: q.last = i
AddLast(p) ==
    /\ ~panicked
    /\ pc[p] = "a176"
    /\ storage' = [storage EXCEPT !.last = loc[p].i]
    /\ pc' = [pc EXCEPT ![p] = "a177"]
    /\ UNCHANGED <<panicked, addLog, getLog, lock, loc, nextId, runVars>>

\* lines 177-178: q.size++; return nil
AddSize(p) ==
    /\ ~panicked
    /\ pc[p] = "a177"
    /\ storage' = [storage EXCEPT !.size = @ + 1]
    /\ Unlock(p)
    /\ UNCHANGED <<panicked, addLog, getLog, nextId, runVars>>

\* GetRequest(), line 183: the consumer calls and locks.
GetLock(p) ==
    /\ ~panicked
    /\ pc[p] = "idle"
    /\ Len(getLog) < MaxConcGets
    /\ LockFree(p)
    /\ lock' = p
    /\ pc' = [pc EXCEPT ![p] = "g185"]
    /\ UNCHANGED <<storeVars, loc, nextId, runVars>>

\* lines 185-187: an empty storage returns nil, nil.
GetCheck(p) ==
    /\ ~panicked
    /\ pc[p] = "g185"
    /\ IF storage.size = 0
       THEN /\ getLog' = Append(getLog, [rb |-> NilBytes, err |-> NilErr])
            /\ Unlock(p)
       ELSE /\ pc' = [pc EXCEPT ![p] = "g188"]
            /\ UNCHANGED <<getLog, lock, loc>>
    /\ UNCHANGED <<storage, panicked, addLog, nextId, runVars>>

\* line 188: r := q.first.Request
GetRead(p) ==
    /\ ~panicked
    /\ pc[p] = "g188"
    /\ IF storage.first = NilPtr
       THEN panicked' = TRUE /\ UNCHANGED loc
       ELSE /\ loc' = [loc EXCEPT ![p].r = storage.heap[storage.first].Request]
            /\ UNCHANGED panicked
    /\ pc' = [pc EXCEPT ![p] = "g189"]
    /\ UNCHANGED <<storage, addLog, getLog, lock, nextId, runVars>>

\* line 189: q.first = q.first.Next
GetAdvance(p) ==
    /\ ~panicked
    /\ pc[p] = "g189"
    /\ IF storage.first = NilPtr
       THEN panicked' = TRUE /\ UNCHANGED storage
       ELSE /\ storage' = [storage EXCEPT !.first = storage.heap[storage.first].Next]
            /\ UNCHANGED panicked
    /\ pc' = [pc EXCEPT ![p] = "g190"]
    /\ UNCHANGED <<addLog, getLog, lock, loc, nextId, runVars>>

\* lines 190-191: q.size--; return r, nil
GetSize(p) ==
    /\ ~panicked
    /\ pc[p] = "g190"
    /\ storage' = [storage EXCEPT !.size = @ - 1]
    /\ getLog' = Append(getLog, [rb |-> loc[p].r, err |-> NilErr])
    /\ Unlock(p)
    /\ UNCHANGED <<panicked, addLog, nextId, runVars>>

NextConc ==
    \/ \E p \in Producers :
          \/ AddLock(p)
          \/ AddCheck(p)
          \/ AddNew(p)
          \/ AddTest(p)
          \/ AddFirst(p)
          \/ AddNext(p)
          \/ AddLast(p)
          \/ AddSize(p)
    \/ GetLock(Consumer)
    \/ GetCheck(Consumer)
    \/ GetRead(Consumer)
    \/ GetAdvance(Consumer)
    \/ GetSize(Consumer)

SpecConc == InitStorage /\ [][NextConc]_vars

Quiescent == \A p \in Procs : pc[p] = "idle"

\* C10: concurrent producers and one consumer: no payload is returned twice,
\* every returned payload was accepted, an accepted payload is in the backlog
\* or was returned once every call has returned, and the payloads of one
\* producer are returned in that producer's call order.
ConcurrentFIFO ==
    /\ ~panicked
    /\ \A k1, k2 \in Returned : k1 # k2 => getLog[k1].rb # getLog[k2].rb
    /\ \A k \in Returned : \E j \in Accepted : addLog[j].r = getLog[k].rb
    /\ Quiescent =>
          /\ \A j \in Accepted :
                \/ \E k \in Returned : getLog[k].rb = addLog[j].r
                \/ \E n \in 1..Len(Items(storage)) : Items(storage)[n] = addLog[j].r
          /\ Len(Items(storage)) + Cardinality(Returned) = Cardinality(Accepted)
    /\ \A k1, k2 \in Returned :
          (k1 < k2 /\ getLog[k1].rb.by = getLog[k2].rb.by)
              => getLog[k1].rb.id < getLog[k2].rb.id

\* Both producers' payloads came back, one of them enqueued while another
\* producer's payload was still in the backlog and after a pop.
ConcurrentWitness ==
    /\ Quiescent
    /\ Cardinality(Returned) = 3
    /\ \A p \in Producers : \E k \in Returned : getLog[k].rb.by = p
    /\ \E j \in Accepted : addLog[j].afterGet
                           /\ \E k \in Returned : getLog[k].rb = addLog[j].r

\* ------------------------------------------------------------ Queue.Run

\* c.UnmarshalRequest(t): the request a payload decodes to, or an error.
UnmarshalRequest(rb) ==
    IF rb.ok THEN [r |-> rb.id, err |-> NilErr]
    ELSE [r |-> NoRequest, err |-> "unmarshal"]

\* q.Size()
Size(q) == QueueSize(q)

\* q.IsEmpty(): s, _ := q.Size(); return s == 0
\* The error that comes with the size makes the queue empty.
IsEmptyErrIsEmpty(sz) == sz.err # NilErr \/ sz.n = 0

IsEmptyOf(sz) == sz.n = 0

IsEmpty(q) == IsEmptyOf(Size(q))

Started == 1..Threads
FollowUps == {j \in 1..Len(addLog) : addLog[j].r.by = "do"}

\* q.AddRequest(r) on the storage (lines 93-99), the request marshalled to a
\* fresh payload; a Marshal error returns before the storage is touched.
Enqueue(by, ok) ==
    LET r == Bytes(Len(addLog) + 1, by, ok)
        res == AddRequestBody(storage, r)
    IN  /\ Len(addLog) < MaxItems
        /\ storage' = res.q
        /\ panicked' = res.panic
        /\ addLog' = Append(addLog, [r |-> r, err |-> res.err,
                                     full |-> storage.MaxSize > 0
                                              /\ storage.size >= storage.MaxSize,
                                     afterGet |-> getLog # <<>>])

\* A request enqueued before Run is called.
QueueAddRequest(max, ok) ==
    /\ ~panicked
    /\ rpc = "new"
    /\ Len(addLog) < max
    /\ Enqueue("main", ok)
    /\ UNCHANGED <<getLog, concVars, runVars>>

\* Run, lines 109-123 and 148: the goroutines are started, Run waits.
RunStart ==
    /\ ~panicked
    /\ rpc = "new"
    /\ rpc' = "wait"
    /\ wpc' = [w \in Workers |-> IF w \in Started THEN "l114" ELSE "none"]
    /\ dpc' = "l126"
    /\ UNCHANGED <<storeVars, concVars, Threads, activeThreadCount, requestsOut,
                   wr, dr, handed, done>>

\* line 114: atomic.AddInt32(&q.activeThreadCount, 1)
WorkerStartNoCount(w) ==
    /\ ~panicked
    /\ wpc[w] = "l114"
    /\ wpc' = [wpc EXCEPT ![w] = "l115"]
    /\ UNCHANGED <<storeVars, concVars, Threads, activeThreadCount, requestsOut,
                   rpc, wr, dpc, dr, handed, done>>

WorkerStart(w) ==
    /\ ~panicked
    /\ wpc[w] = "l114"
    /\ activeThreadCount' = activeThreadCount + 1
    /\ wpc' = [wpc EXCEPT ![w] = "l115"]
    /\ UNCHANGED <<storeVars, concVars, Threads, requestsOut, rpc, wr, dpc, dr,
                   handed, done>>

\* lines 144 and 115: the send on the unbuffered q.requestsOut meets the
\* receive of one consumer goroutine.
Handoff(w) ==
    /\ ~panicked
    /\ dpc = "l144"
    /\ wpc[w] = "l115"
    /\ requestsOut = "open"
    /\ wr' = [wr EXCEPT ![w] = dr]
    /\ handed' = [handed EXCEPT ![dr] = @ + 1]
    /\ wpc' = [wpc EXCEPT ![w] = "l116"]
    /\ dr' = NoRequest
    /\ dpc' = "l126"
    /\ UNCHANGED <<storeVars, concVars, Threads, activeThreadCount, requestsOut,
                   rpc, done>>

\* line 116, inside r.Do(): the executor enqueues a follow-up request.
DoAddRequest(w) ==
    /\ ~panicked
    /\ wpc[w] = "l116"
    /\ Cardinality(FollowUps) < MaxFollowUps
    /\ Enqueue("do", TRUE)
    /\ UNCHANGED <<getLog, concVars, runVars>>

\* line 116: r.Do() returns.
WorkerDo(w) ==
    /\ ~panicked
    /\ wpc[w] = "l116"
    /\ done' = [done EXCEPT ![wr[w]] = @ + 1]
    /\ wr' = [wr EXCEPT ![w] = NoRequest]
    /\ wpc' = [wpc EXCEPT ![w] = "l115"]
    /\ UNCHANGED <<storeVars, concVars, Threads, activeThreadCount, requestsOut,
                   rpc, dpc, dr, handed>>

\* line 115: the range over the closed q.requestsOut ends.
WorkerClosedWhileOpen(w) ==
    /\ ~panicked
    /\ wpc[w] = "l115"
    /\ wpc' = [wpc EXCEPT ![w] = "l118"]
    /\ UNCHANGED <<storeVars, concVars, Threads, activeThreadCount, requestsOut,
                   rpc, wr, dpc, dr, handed, done>>

WorkerClosed(w) ==
    /\ ~panicked
    /\ wpc[w] = "l115"
    /\ requestsOut = "closed"
    /\ wpc' = [wpc EXCEPT ![w] = "l118"]
    /\ UNCHANGED <<storeVars, concVars, Threads, activeThreadCount, requestsOut,
                   rpc, wr, dpc, dr, handed, done>>

\* lines 118 and 113: atomic.AddInt32(&q.activeThreadCount, -1); wg.Done()
WorkerExitNoCount(w) ==
    /\ ~panicked
    /\ wpc[w] = "l118"
    /\ wpc' = [wpc EXCEPT ![w] = "done"]
    /\ UNCHANGED <<storeVars, concVars, Threads, activeThreadCount, requestsOut,
                   rpc, wr, dpc, dr, handed, done>>

WorkerExit(w) ==
    /\ ~panicked
    /\ wpc[w] = "l118"
    /\ activeThreadCount' = activeThreadCount - 1
    /\ wpc' = [wpc EXCEPT ![w] = "done"]
    /\ UNCHANGED <<storeVars, concVars, Threads, requestsOut, rpc, wr, dpc, dr,
                   handed, done>>

\* line 126: if q.IsEmpty()
DispIsEmptySkipped ==
    /\ ~panicked
    /\ dpc = "l126"
    /\ dpc' = "l127"
    /\ UNCHANGED <<storeVars, concVars, Threads, activeThreadCount, requestsOut,
                   rpc, wpc, wr, dr, handed, done>>

DispIsEmptyOn(sz) ==
    /\ ~panicked
    /\ dpc = "l126"
    /\ dpc' = IF IsEmptyOf(sz) THEN "l127" ELSE "l133"
    /\ UNCHANGED <<storeVars, concVars, Threads, activeThreadCount, requestsOut,
                   rpc, wpc, wr, dr, handed, done>>

DispIsEmpty == DispIsEmptyOn(Size(storage))

\* lines 127-131 and 152-154: with no active thread finish() closes
\* q.requestsOut and the loop ends, else the loop goes round.  The read of
\* q.activeThreadCount is a plain one beside atomic writes: it may miss the
\* increment of a consumer that has not yet received (the receive orders that
\* consumer's increment before the send returns), which is the outcome of the
\* interleaving where that consumer has not run line 114 yet.
DispCheckActiveAlwaysFinishes ==
    /\ ~panicked
    /\ dpc = "l127"
    /\ requestsOut' = "closed"
    /\ dpc' = "done"
    /\ UNCHANGED <<storeVars, concVars, Threads, activeThreadCount, rpc, wpc, wr,
                   dr, handed, done>>

\* The break of line 129 is missing: the loop goes round after finish().
DispCheckActiveKeepsLooping ==
    /\ ~panicked
    /\ dpc = "l127"
    /\ IF activeThreadCount = 0
       THEN /\ requestsOut' = "closed"
            /\ dpc' = "l126"
       ELSE /\ dpc' = "l126"
            /\ UNCHANGED requestsOut
    /\ UNCHANGED <<storeVars, concVars, Threads, activeThreadCount, rpc, wpc, wr,
                   dr, handed, done>>

DispCheckActive ==
    /\ ~panicked
    /\ dpc = "l127"
    /\ IF activeThreadCount = 0
       THEN /\ requestsOut' = "closed"
            /\ dpc' = "done"
       ELSE /\ dpc' = "l126"
            /\ UNCHANGED requestsOut
    /\ UNCHANGED <<storeVars, concVars, Threads, activeThreadCount, rpc, wpc, wr,
                   dr, handed, done>>

\* The call of line 135 that the source has commented out is made.
DispGetOnFinishes(res) ==
    /\ ~panicked
    /\ dpc = "l133"
    /\ LET u == UnmarshalRequest(res.rb)
       IN  /\ storage' = res.q
           /\ panicked' = res.panic
           /\ getLog' = Append(getLog, [rb |-> res.rb, err |-> res.err])
           /\ IF res.err # NilErr \/ res.rb = NilBytes
              THEN dpc' = "done" /\ requestsOut' = "closed" /\ UNCHANGED dr
              ELSE IF u.err # NilErr \/ u.r = NoRequest
              THEN dpc' = "l126" /\ UNCHANGED <<dr, requestsOut>>
              ELSE dpc' = "l144" /\ dr' = u.r /\ UNCHANGED requestsOut
    /\ UNCHANGED <<addLog, concVars, Threads, activeThreadCount,
                   rpc, wpc, wr, handed, done>>

\* lines 133-143: the pop; an error or a nil payload ends the loop with the
\* channel left open; a payload that does not decode is dropped.
DispGetOn(res) ==
    /\ ~panicked
    /\ dpc = "l133"
    /\ LET u == UnmarshalRequest(res.rb)
       IN  /\ storage' = res.q
           /\ panicked' = res.panic
           /\ getLog' = Append(getLog, [rb |-> res.rb, err |-> res.err])
           /\ IF res.err # NilErr \/ res.rb = NilBytes
              THEN dpc' = "done" /\ UNCHANGED dr
              ELSE IF u.err # NilErr \/ u.r = NoRequest
              THEN dpc' = "l126" /\ UNCHANGED dr
              ELSE dpc' = "l144" /\ dr' = u.r
    /\ UNCHANGED <<addLog, concVars, Threads, activeThreadCount, requestsOut,
                   rpc, wpc, wr, handed, done>>

\* The send of line 144 does not wait for a receiver.
DispGetSkipsSend ==
    /\ ~panicked
    /\ dpc = "l133"
    /\ LET res == GetRequestBody(storage)
           u == UnmarshalRequest(res.rb)
       IN  /\ storage' = res.q
           /\ panicked' = res.panic
           /\ getLog' = Append(getLog, [rb |-> res.rb, err |-> res.err])
           /\ IF res.err # NilErr \/ res.rb = NilBytes
              THEN dpc' = "done" /\ UNCHANGED dr
              ELSE IF u.err # NilErr \/ u.r = NoRequest
              THEN dpc' = "l126" /\ UNCHANGED dr
              ELSE dpc' = "l126" /\ dr' = u.r
    /\ UNCHANGED <<addLog, concVars, Threads, activeThreadCount, requestsOut,
                   rpc, wpc, wr, handed, done>>

\* A payload that does not decode ends the loop.
DispGetStopsOnDecodeError ==
    /\ ~panicked
    /\ dpc = "l133"
    /\ LET res == GetRequestBody(storage)
           u == UnmarshalRequest(res.rb)
       IN  /\ storage' = res.q
           /\ panicked' = res.panic
           /\ getLog' = Append(getLog, [rb |-> res.rb, err |-> res.err])
           /\ IF res.err # NilErr \/ res.rb = NilBytes
              THEN dpc' = "done" /\ UNCHANGED dr
              ELSE IF u.err # NilErr \/ u.r = NoRequest
              THEN dpc' = "done" /\ UNCHANGED dr
              ELSE dpc' = "l144" /\ dr' = u.r
    /\ UNCHANGED <<addLog, concVars, Threads, activeThreadCount, requestsOut,
                   rpc, wpc, wr, handed, done>>

\* The dispatcher on the InMemoryQueueStorage.
DispGet == DispGetOn(GetRequestBody(storage))

\* lines 148-149: wg.Wait() returns when every goroutine has ended.
RunReturn ==
    /\ ~panicked
    /\ rpc = "wait"
    /\ dpc = "done"
    /\ \A w \in Started : wpc[w] = "done"
    /\ rpc' = "returned"
    /\ UNCHANGED <<storeVars, concVars, Threads, activeThreadCount, requestsOut,
                   wpc, wr, dpc, dr, handed, done>>

Dispatcher == DispIsEmpty \/ DispCheckActive \/ DispGet

Worker(w) == WorkerStart(w) \/ WorkerDo(w) \/ WorkerClosed(w) \/ WorkerExit(w)

\* The Go scheduler runs every goroutine that can take a step.
Fairness ==
    /\ WF_vars(Dispatcher)
    /\ \A w \in Workers : WF_vars(Worker(w))
    /\ WF_vars(\E w \in Workers : Handoff(w))
    /\ WF_vars(RunReturn)

InitRun(threadCounts) ==
    /\ storage \in {InMemoryQueueStorage(m) : m \in 0..MaxCap}
    /\ panicked = FALSE
    /\ addLog = <<>>
    /\ getLog = <<>>
    /\ InitCallers
    /\ InitQueue(threadCounts)

\* Run over a backlog of decodable requests, the executor enqueueing nothing.
InitDrain == InitRun(1..MaxThreads)

NextDrain ==
    \/ QueueAddRequest(MaxBacklog, TRUE)
    \/ RunStart
    \/ Dispatcher
    \/ \E w \in Workers : Worker(w) \/ Handoff(w)
    \/ RunReturn

SpecDrain == InitDrain /\ [][NextDrain]_vars /\ Fairness

AcceptedIds == {addLog[j].r.id : j \in Accepted}

\* C1: with q.Threads >= 1, a backlog of decodable requests and an executor
\* that enqueues nothing, Run, once called, eventually returns.
Termination == (rpc = "wait") ~> (rpc = "returned")

\* C2: with q.Threads >= 1, a backlog of decodable requests and an executor
\* that enqueues nothing, no request is received from q.requestsOut twice or
\* executed twice, only accepted requests are executed, and once Run is
\* called every accepted request is eventually executed.
ExactlyOnce ==
    /\ [](\A i \in 1..MaxItems :
             /\ handed[i] <= 1
             /\ done[i] <= handed[i]
             /\ handed[i] = 1 => i \in AcceptedIds)
    /\ (rpc = "wait") ~> (\A i \in AcceptedIds : done[i] = 1)

ExactlyOnceWitness ==
    /\ Threads = 2
    /\ Cardinality(AcceptedIds) = 3
    /\ \A i \in AcceptedIds : done[i] = 1
    /\ IsEmpty(storage)

\* ----------------- Run with any backlog and an executor that may enqueue

InitAny == InitRun(-1..MaxThreads)

NextAny ==
    \/ \E ok \in BOOLEAN : QueueAddRequest(MaxBacklog, ok)
    \/ RunStart
    \/ Dispatcher
    \/ \E w \in Workers : Worker(w) \/ Handoff(w) \/ DoAddRequest(w)
    \/ RunReturn

SpecRun == InitAny /\ [][NextAny]_vars /\ Fairness

\* C3: with executors the only producers during Run, q.requestsOut is closed
\* only with the backlog empty and no consumer goroutine holding a request it
\* received and has not finished executing.
NoPrematureCompletion ==
    requestsOut = "closed"
        => /\ IsEmpty(storage)
           /\ Items(storage) = <<>>
           /\ dr = NoRequest
           /\ \A w \in Workers : wpc[w] # "l116" /\ wr[w] = NoRequest

\* The channel was closed by a Run that had consumers and a backlog.
NoPrematureCompletionWitness ==
    /\ requestsOut = "closed"
    /\ Threads >= 1
    /\ Accepted # {}

AcceptedFollowUps == FollowUps \cap Accepted

\* Run over a small backlog of decodable requests, the executor enqueueing
\* follow-up requests while it runs.
InitFollow == InitRun(1..MaxThreads)

NextFollow ==
    \/ QueueAddRequest(MaxSeed, TRUE)
    \/ RunStart
    \/ Dispatcher
    \/ \E w \in Workers : Worker(w) \/ Handoff(w) \/ DoAddRequest(w)
    \/ RunReturn

SpecFollow == InitFollow /\ [][NextFollow]_vars /\ Fairness

\* C4: a follow-up request that an executor enqueues while it runs is, once
\* accepted into the backlog, popped and executed, and q.requestsOut is not
\* closed, nor does Run return, before that: Run returns only with the
\* original and the follow-up request both executed.
ReenqueueLaw ==
    /\ [](requestsOut = "closed" => \A j \in AcceptedFollowUps : done[j] = 1)
    /\ [](rpc = "returned" => \A j \in Accepted : done[j] = 1)
    /\ (AcceptedFollowUps # {}) ~> (\A j \in AcceptedFollowUps : done[j] = 1)

\* One request enqueued before Run, one follow-up enqueued by its executor,
\* both executed.
ReenqueueWitness ==
    /\ Len(addLog) = 2
    /\ Accepted = {1, 2}
    /\ FollowUps = {2}
    /\ done[1] = 1
    /\ done[2] = 1

Live == {w \in Workers : wpc[w] \in {"l115", "l116", "l118"}}
Max(a, b) == IF a >= b THEN a ELSE b

\* C11 as stated: activeThreadCount counts the consumer goroutines between
\* their increment and their decrement, 0 <= activeThreadCount <= q.Threads in
\* every state, and activeThreadCount = 0 once Run has returned.
CounterWithinThreads ==
    /\ activeThreadCount = Cardinality(Live)
    /\ 0 <= activeThreadCount
    /\ activeThreadCount <= Threads
    /\ rpc = "returned" => activeThreadCount = 0

\* C11 as amended: the same with the upper bound the number of consumer
\* goroutines, which is 0 for a negative q.Threads.
CounterInvariant ==
    /\ activeThreadCount = Cardinality(Live)
    /\ 0 <= activeThreadCount
    /\ activeThreadCount <= Max(Threads, 0)
    /\ rpc = "returned" => activeThreadCount = 0

\* Run returned after both consumers counted themselves in and out.
CounterWitness ==
    /\ Threads = 2
    /\ rpc = "returned"
    /\ \A w \in Started : wpc[w] = "done"
    /\ activeThreadCount = 0

\* ------------------------------------------------ Run with no consumers

InitZero == InitRun(-1..0)

NextZero ==
    \/ \E ok \in BOOLEAN : QueueAddRequest(MaxBacklog, ok)
    \/ RunStart
    \/ Dispatcher
    \/ RunReturn

SpecZero == InitZero /\ [][NextZero]_vars /\ Fairness

Decodable == {j \in Accepted : addLog[j].r.ok}
FirstDecodable == CHOOSE j \in Decodable : \A k \in Decodable : j <= k

\* C12 as stated: with q.Threads = 0 and a backlog that is not empty when Run
\* is called, the dispatcher never closes q.requestsOut, Run never returns,
\* and the dispatcher keeps polling: it is never parked on the send, where
\* with no receiver it would stay.
ZeroWorkersSpin ==
    (Threads = 0 /\ rpc # "new" /\ Accepted # {})
        => /\ requestsOut = "open"
           /\ rpc = "wait"
           /\ dpc \in {"l126", "l127", "l133"}

\* C12 as amended: with q.Threads = 0 and a backlog holding a decodable request
\* when Run is called, the dispatcher never finds the backlog empty, never
\* closes q.requestsOut and Run never returns; the dispatcher does not poll
\* for ever: it pops the first decodable request, and from then on is parked
\* on the send with that request, popping nothing more.
ZeroWorkersBlock ==
    /\ []((Threads = 0 /\ rpc # "new" /\ Decodable # {})
            => /\ requestsOut = "open"
               /\ rpc = "wait"
               /\ dpc \in {"l126", "l133", "l144"}
               /\ \A i \in 1..MaxItems : handed[i] = 0)
    /\ [][(Threads = 0 /\ dpc = "l144")
            => /\ dpc' = "l144"
               /\ dr' = dr
               /\ storage' = storage
               /\ getLog' = getLog]_vars
    /\ (Threads = 0 /\ rpc = "wait" /\ Decodable # {})
           ~> [](dpc = "l144" /\ dr = FirstDecodable)

\* The dispatcher parked on the send, an undecodable payload dropped before
\* and a payload still in the backlog.
ZeroWorkersWitness ==
    /\ Threads = 0
    /\ dpc = "l144"
    /\ Len(getLog) = 2
    /\ ~IsEmpty(storage)

\* C13 as stated: with q.Threads <= 0 and a backlog that is not empty, the
\* dispatcher goes straight to finish(): it never reaches the pop or the
\* send, and when its loop has ended q.requestsOut is closed with payloads
\* left in the backlog.
ZeroWorkersImmediateFinish ==
    (Threads <= 0 /\ rpc # "new" /\ Accepted # {})
        => /\ dpc \notin {"l133", "l144"}
           /\ dpc = "done" => (requestsOut = "closed" /\ ~IsEmpty(storage))

\* C13 as amended: with q.Threads <= 0 activeThreadCount is 0 throughout, but
\* the dispatcher tests it only after IsEmpty() returned true, so q.requestsOut
\* is never closed with a payload left in the backlog: it is closed only once
\* every accepted payload was popped and none decoded.
ZeroWorkersNoEarlyFinish ==
    Threads <= 0
        => /\ activeThreadCount = 0
           /\ dpc = "l127" => IsEmpty(storage)
           /\ requestsOut = "closed"
                 => /\ IsEmpty(storage)
                    /\ Items(storage) = <<>>
                    /\ Decodable = {}
                    /\ Len(getLog) = Cardinality(Accepted)

\* The channel closed by a Run without consumers, after two payloads that
\* did not decode were popped and dropped.
ZeroWorkersFinishWitness ==
    /\ Threads <= 0
    /\ requestsOut = "closed"
    /\ Cardinality(Accepted) = 2
    /\ Len(getLog) = 2

\* The decodable payloads popped so far, and the requests received so far.
PoppedDecodable == {k \in 1..Len(getLog) : getLog[k].rb.ok}

RECURSIVE SumHanded(_)
SumHanded(n) == IF n = 0 THEN 0 ELSE handed[n] + SumHanded(n - 1)

InFlight == Cardinality(PoppedDecodable) - SumHanded(MaxItems)

\* C14: at most one decodable request has been popped from the backlog and
\* not yet received by a consumer goroutine; there is one exactly while the
\* dispatcher is on the send, holding it, and none when the dispatcher pops.
FlowControl ==
    /\ InFlight \in {0, 1}
    /\ InFlight = 1 <=> dpc = "l144"
    /\ dpc = "l144" => /\ dr # NoRequest
                       /\ getLog[Len(getLog)].rb.id = dr
                       /\ handed[dr] = 0
    /\ dpc = "l133" => InFlight = 0

\* The dispatcher waits on the send with every consumer busy and payloads
\* left in the backlog.
FlowControlWitness ==
    /\ Threads = 2
    /\ dpc = "l144"
    /\ \A w \in Started : wpc[w] = "l116"
    /\ ~IsEmpty(storage)

\* --------------------- Run over a backlog with payloads that do not decode

InitDecode == InitRun(1..MaxThreads)

NextDecode ==
    \/ \E ok \in BOOLEAN : QueueAddRequest(MaxBacklog, ok)
    \/ RunStart
    \/ Dispatcher
    \/ \E w \in Workers : Worker(w) \/ Handoff(w)
    \/ RunReturn

SpecDecode == InitDecode /\ [][NextDecode]_vars /\ Fairness

PoppedUndecodable == {k \in 1..Len(getLog) : getLog[k].rb # NilBytes /\ ~getLog[k].rb.ok}

\* C15: a popped payload that does not decode is never handed to a consumer
\* goroutine and never put back in the backlog; the dispatcher goes on with
\* its loop, and every decodable request of the backlog is dispatched.
DecodeFailureLaw ==
    /\ [](\A j \in Accepted : ~addLog[j].r.ok => (handed[j] = 0 /\ done[j] = 0))
    /\ [](\A k \in PoppedUndecodable :
             \A n \in 1..Len(Items(storage)) : Items(storage)[n] # getLog[k].rb)
    /\ [][(GetStep /\ ~LastGet'.rb.ok)
            => /\ dpc' = "l126"
               /\ addLog' = addLog
               /\ dr' = dr
               /\ requestsOut' = requestsOut]_vars
    /\ (rpc = "wait") ~> (\A j \in Decodable : handed[j] = 1)

\* A payload that did not decode was popped, and a decodable one popped
\* after it was executed.
DecodeFailureWitness ==
    \E k1, k2 \in 1..Len(getLog) :
        /\ k1 < k2
        /\ k1 \in PoppedUndecodable
        /\ getLog[k2].rb.ok
        /\ done[getLog[k2].rb.id] = 1

\* ------------------- Run over a storage whose pop can fail or come back nil

\* Storage.GetRequest of an implementation that fails: "returns error".
FailingGetRequest(q) == [q |-> q, rb |-> NilBytes, err |-> "error", panic |-> FALSE]

DispGetFailing == DispGetOn(FailingGetRequest(storage))

\* The nil payloads stored so far: the items allocated beyond the accepted
\* requests of Queue.AddRequest.
NilAdds == Len(storage.heap) - Cardinality(Accepted)

\* s.AddRequest(nil) called on the storage handed to New: a nil payload.
StorageAddNil ==
    /\ ~panicked
    /\ NilAdds < MaxNils
    /\ LET res == AddRequestBody(storage, NilBytes)
       IN  storage' = res.q /\ panicked' = res.panic
    /\ UNCHANGED <<addLog, getLog, concVars, runVars>>

\* s.GetRequest() called by another holder of the storage while Run is on.
OtherGetRequest ==
    /\ ~panicked
    /\ rpc = "wait"
    /\ ~IsEmpty(storage)
    /\ LET res == GetRequestBody(storage)
       IN  storage' = res.q /\ panicked' = res.panic
    /\ UNCHANGED <<addLog, getLog, concVars, runVars>>

InitStop == InitRun(0..MaxThreads)

NextStop ==
    \/ QueueAddRequest(MaxSeed, TRUE)
    \/ StorageAddNil
    \/ OtherGetRequest
    \/ RunStart
    \/ Dispatcher
    \/ DispGetFailing
    \/ \E w \in Workers : Worker(w) \/ Handoff(w)
    \/ RunReturn

SpecStop == InitStop /\ [][NextStop]_vars /\ Fairness

PopFailed == getLog # <<>> /\ (LastGet.err # NilErr \/ LastGet.rb = NilBytes)

\* C16: when s.GetRequest() returns an error or no payload after IsEmpty()
\* was false, the dispatcher leaves its loop, pops nothing more and leaves
\* q.requestsOut open; with q.Threads >= 1 the consumer goroutines then stay
\* at the receive and Run never returns.
DefensiveStop ==
    /\ [][(GetStep /\ PopFailed')
            => (dpc' = "done" /\ requestsOut = "open" /\ requestsOut' = "open")]_vars
    /\ [][PopFailed => (getLog' = getLog /\ dpc' = "done"
                        /\ requestsOut' = "open")]_vars
    /\ []((PopFailed /\ Threads >= 1)
            => /\ rpc = "wait"
               /\ \A w \in Started : wpc[w] \in {"l114", "l115", "l116"})
    /\ (PopFailed /\ Threads >= 1) ~> [](\A w \in Started : wpc[w] = "l115")

\* The pop came back with nothing after IsEmpty() was false, and both
\* consumer goroutines wait at the receive of the open channel.
DefensiveStopWitness ==
    /\ PopFailed
    /\ LastGet.err = NilErr
    /\ Threads = 2
    /\ dpc = "done"
    /\ requestsOut = "open"
    /\ \A w \in Started : wpc[w] = "l115"
    /\ \E i \in 1..MaxItems : done[i] = 1

\* ------------------------ Run over a Storage whose QueueSize() can fail

\* A Storage implementation of the caller, given by what its QueueSize()
\* returns: the integer and the error.
StubStorage(n, err) == [n |-> n, err |-> err]

StubStorages == {StubStorage(n, e) : n \in 0..MaxReported, e \in {NilErr, "error"}}

StubQueueSize(q) == [n |-> q.n, err |-> q.err]

\* The state behind the Storage changes what QueueSize() returns.
StubReport ==
    /\ storage' \in StubStorages \ {storage}
    /\ UNCHANGED <<panicked, addLog, getLog, concVars, runVars>>

DispIsEmptyStub == DispIsEmptyOn(StubQueueSize(storage))

InitSize ==
    /\ storage \in StubStorages
    /\ panicked = FALSE
    /\ addLog = <<>>
    /\ getLog = <<>>
    /\ InitCallers
    /\ InitQueue(0..MaxThreads)

NextSize ==
    \/ StubReport
    \/ RunStart
    \/ DispIsEmptyStub
    \/ DispCheckActive
    \/ DispGetFailing
    \/ \E w \in Workers : WorkerStart(w) \/ WorkerClosed(w) \/ WorkerExit(w)
    \/ RunReturn

SpecSize == InitSize /\ [][NextSize]_vars

\* The dispatcher's step of line 126 and the answer IsEmpty() gave it.
IsEmptyStep == dpc = "l126" /\ dpc' # "l126"
SaidEmpty == dpc' = "l127"

\* C17 as claimed: whenever QueueSize() returns an error, whatever the
\* integer, q.IsEmpty() is true; without an error it is true exactly when the
\* size is 0.
IsEmptySwallowsAsEmpty ==
    [][IsEmptyStep =>
        IF StubQueueSize(storage).err # NilErr
        THEN SaidEmpty
        ELSE SaidEmpty <=> StubQueueSize(storage).n = 0]_vars

\* C17 amended: q.IsEmpty() drops the error and is true exactly when the
\* integer QueueSize() returns is 0, with or without an error.
IsEmptyIgnoresError ==
    [][IsEmptyStep => (SaidEmpty <=> StubQueueSize(storage).n = 0)]_vars

\* QueueSize() returned a size other than 0 with an error, and the
\* dispatcher went on to the pop: IsEmpty() was false.
IsEmptyWitness ==
    /\ storage.err # NilErr
    /\ storage.n # 0
    /\ dpc = "done"
    /\ requestsOut = "open"
    /\ getLog # <<>>
    /\ Threads = 2
    /\ activeThreadCount = 2

\* -------------------------------------------- the protocol of q.requestsOut

\* The state of one Run: the channel open, closed with consumer goroutines
\* still to end, closed with every consumer goroutine ended.
RunState ==
    IF requestsOut = "open" THEN 0
    ELSE IF \E w \in Started : wpc[w] # "done" THEN 1
    ELSE 2

\* C18: within one Run q.requestsOut is closed at most once, by the
\* dispatcher at lines 127-128 only; after the close the dispatcher sends
\* nothing, and the run state never moves back.
ChannelProtocol ==
    /\ [][requestsOut' # requestsOut
            => /\ requestsOut = "open"
               /\ requestsOut' = "closed"
               /\ dpc = "l127"
               /\ dpc' = "done"]_vars
    /\ [](requestsOut = "closed" => (dpc = "done" /\ dr = NoRequest))
    /\ [][requestsOut = "closed" => (handed' = handed /\ dpc' = dpc)]_vars
    /\ [][RunState' >= RunState]_vars

\* The channel was closed after the dispatcher dropped a payload, both
\* consumer goroutines ended and Run returned.
ChannelProtocolWitness ==
    /\ Threads = 2
    /\ requestsOut = "closed"
    /\ RunState = 2
    /\ rpc = "returned"
    /\ getLog # <<>>

\* ----------------------------------- the order of consumer exit and close

\* C19: q.activeThreadCount is decremented only with q.requestsOut closed;
\* while the channel is open the count never decreases, so from the first
\* increment of a consumer goroutine to the close it is at least 1.
ExitAfterClose ==
    /\ [][activeThreadCount' < activeThreadCount => requestsOut = "closed"]_vars
    /\ [][requestsOut = "open" => activeThreadCount' >= activeThreadCount]_vars
    /\ []((requestsOut = "open" /\ Live # {}) => activeThreadCount >= 1)

\* One consumer goroutine has decremented the count after the close while
\* the other, counted, is still at the receive.
ExitAfterCloseWitness ==
    /\ Threads = 2
    /\ requestsOut = "closed"
    /\ \E w \in Started : wpc[w] = "done"
    /\ \E w \in Started : wpc[w] = "l115"
    /\ activeThreadCount = 1

\* ------------------------ the pop of the dispatcher on the default storage

\* C20: on an InMemoryQueueStorage of non-nil payloads with the dispatcher
\* its only consumer, producers running beside it, s.GetRequest() at line
\* 133 always returns a payload: the backlog is not empty whenever the
\* dispatcher is at the pop, no pop comes back nil or with an error, and the
\* dispatcher leaves its loop only through finish().
NoDefensiveStop ==
    /\ dpc = "l133" => (~IsEmpty(storage) /\ storage.first # NilPtr)
    /\ ~PopFailed
    /\ dpc = "done" => requestsOut = "closed"

\* The dispatcher is at the pop while an executor has enqueued a follow-up
\* and is still running, after an earlier pop.
NoDefensiveStopWitness ==
    /\ dpc = "l133"
    /\ \E w \in Started : wpc[w] = "l116"
    /\ FollowUps # {}
    /\ getLog # <<>>
    /\ Len(Items(storage)) = 2

====
